---- MODULE Spec2Model ----
(***************************************************************************)
(* Maze search visualizer: the maze data model, the three incremental      *)
(* search engines (DFS, BFS, A-star) behind the MazeSearcher trait, and    *)
(* the maze generator.                                                     *)
(*                                                                         *)
(* Coordinates are pairs <<row, col>>, 0-based.  An Option value is the    *)
(* empty tuple (None) or a one-element tuple (Some(x)).                    *)
(***************************************************************************)
EXTENDS Integers, Sequences, FiniteSets, TLC

VARIABLES
    searcher,   \* the Box<dyn MazeSearcher>: a record holding one engine's fields
    lastCall,   \* the last trait call made on the searcher and what it returned
    view,       \* the renderer's per-cell model (one status per linear index)
    advances,   \* advance calls made on an InSearch engine since new or reset
    gen,        \* a call of generate_maze: its position and its locals
    ui          \* the Visualizer: the event-loop thread's position, the task
                \* slot, the auto-search threads and the selected algorithm

vars == <<searcher, lastCall, view, advances, gen, ui>>

\* ------------------------------------------------------------------ bounds

\* Largest number of rows of a hand-built maze.
MaxRows == 3

\* Largest number of columns of a hand-built maze.
MaxCols == 3

\* Largest number of cells (rows * cols) of a hand-built maze.
MaxArea == 9

\* Largest number of Passage cells of a sparse hand-built maze (its Start and
\* Goal cells come on top of these).
MaxPassages == 3

\* Largest number of Wall cells of an open hand-built maze.
MaxWalls == 1

\* Largest effective_rows and effective_cols (even rows, even columns) and
\* largest number of cells of a generated maze.  The 3x7 maze, with its 2x4
\* lattice, is the smallest whose candidate pairs can tie at the greatest
\* distance; the 5x5 maze is beyond reach, its 15 candidate pairs having more
\* orders than can be enumerated.
MaxEffectiveRows == 2

MaxEffectiveCols == 4

MaxGeneratedArea == 21

\* Largest number of lattice nodes of the maze shape the Visualizer runs with.
MaxVisualizerNodes == 2

\* ------------------------------------------------------------- maze/mod.rs

None == <<>>

Some(x) == <<x>>

\* usize::wrapping_add with a displacement of !0 is written here as -1: the
\* wrapped value is larger than any row or column count, so in_range rejects
\* it exactly as it rejects a negative number.
ADJACENT_DISPLACEMENT == << <<-1, 0>>, <<0, -1>>, <<0, 1>>, <<1, 0>> >>

is_passable(cell_type) == cell_type # "Wall"

MazeShape_new(rows, cols) == [rows |-> rows, cols |-> cols]

in_range(shape, coord) ==
    /\ 0 <= coord[1] /\ coord[1] < shape.rows
    /\ 0 <= coord[2] /\ coord[2] < shape.cols

\* The in-range neighbours of coord, in ADJACENT_DISPLACEMENT order.
adjacent_coordinates(shape, coord) ==
    LET adj(i) == <<coord[1] + ADJACENT_DISPLACEMENT[i][1],
                    coord[2] + ADJACENT_DISPLACEMENT[i][2]>>
    IN  SelectSeq([i \in 1..4 |-> adj(i)], LAMBDA a : in_range(shape, a))

area(shape) == shape.rows * shape.cols

coord_to_idx(shape, coord) == coord[1] * shape.cols + coord[2]

idx_to_coord(shape, cell_idx) == <<cell_idx \div shape.cols, cell_idx % shape.cols>>

Coords(shape) == (0..(shape.rows - 1)) \X (0..(shape.cols - 1))

MazeCellStatus_new(cell_type) ==
    [cell_type |-> cell_type, stay |-> FALSE, visited |-> FALSE,
     footprint |-> FALSE, on_path |-> FALSE]

enter(status, footprint) ==
    [status EXCEPT !.stay = TRUE, !.visited = TRUE, !.footprint = footprint]

exit(status, footprint) ==
    [status EXCEPT !.stay = FALSE, !.footprint = footprint]

set_on_path(status, on_path) == [status EXCEPT !.on_path = on_path]

\* maze.cells.mapv(MazeCellStatus::new)
fresh_statuses(maze) == [c \in Coords(maze.shape) |-> MazeCellStatus_new(maze.cells[c])]

\* ---------------------------------------------------- maze/searcher/mod.rs

ReservedRedraw(shape, coord, status) ==
    [cell_idx |-> coord_to_idx(shape, coord), status |-> status]

\* What an advance call leaves behind: the engine after the call, Ok/Err/Panic,
\* the Vec<ReservedRedraw> inside an Ok, and the number of stale frontier
\* entries its pop loop discarded on the way.
Outcome(s, result, redraws, skipped) ==
    [searcher |-> s, result |-> result, redraws |-> redraws, skipped |-> skipped]

terminated(s) == s.progress \in {"Solved", "NoSolution"}

\* for &coord in &path { set_on_path(true); reserved_redraws.push(..) }, as the
\* pair <<cell_statuses, reserved_redraws>> after the loop.
RECURSIVE mark_path(_, _, _, _)
mark_path(shape, statuses, redraws, path) ==
    IF path = <<>> THEN <<statuses, redraws>>
    ELSE LET coord == Head(path)
             st == [statuses EXCEPT ![coord] = set_on_path(@, TRUE)]
         IN  mark_path(shape, st, Append(redraws, ReservedRedraw(shape, coord, st[coord])),
                       Tail(path))

\* adjacent_coordinates(coord).find(|adj| dist_grid[adj] == Some(d)), as an Option.
RECURSIVE find_with_distance(_, _, _)
find_with_distance(adj, dist_grid, d) ==
    IF adj = <<>> THEN None
    ELSE IF dist_grid[Head(adj)] = Some(d) THEN Some(Head(adj))
    ELSE find_with_distance(Tail(adj), dist_grid, d)

\* find_prev_coord looking for a neighbour at the cell's own distance.
find_prev_coord_same_distance(maze, dist_grid, coord) ==
    IF dist_grid[coord] = None \/ dist_grid[coord][1] = 0 THEN None
    ELSE find_with_distance(adjacent_coordinates(maze.shape, coord), dist_grid,
                            dist_grid[coord][1])

\* find_prev_coord: the first neighbour whose recorded distance is dist - 1.
\* None stands for a panic (unwrap of None, or dist - 1 below zero).
find_prev_coord(maze, dist_grid, coord) ==
    IF dist_grid[coord] = None \/ dist_grid[coord][1] = 0 THEN None
    ELSE find_with_distance(adjacent_coordinates(maze.shape, coord), dist_grid,
                            dist_grid[coord][1] - 1)

\* The goal-to-start walk of `distance` steps, reversed; None when a step panics.
RECURSIVE restore_path(_, _, _, _)
restore_path(maze, dist_grid, path, remaining) ==
    IF remaining = 0 THEN Some(path)
    ELSE LET prev == find_prev_coord(maze, dist_grid, Head(path))
         IN  IF prev = None THEN None
             ELSE restore_path(maze, dist_grid, <<prev[1]>> \o path, remaining - 1)

\* passable_adjacent without the is_passable test.
passable_adjacent_unfiltered(maze, coord) == adjacent_coordinates(maze.shape, coord)

\* The passable neighbours of coord, in adjacency order.
passable_adjacent(maze, coord) ==
    SelectSeq(adjacent_coordinates(maze.shape, coord),
              LAMBDA a : is_passable(maze.cells[a]))

\* ---------------------------------------------------- maze/searcher/bfs.rs

BFS_SearchEdge_init(start) == [from |-> None, to |-> start, distance |-> 0]

\* The same with the distance of the edge it extends.
BFS_SearchEdge_next_same_distance(edge, next) ==
    [from |-> Some(edge.to), to |-> next, distance |-> edge.distance]

BFS_SearchEdge_next(edge, next) ==
    [from |-> Some(edge.to), to |-> next, distance |-> edge.distance + 1]

BFSSearcher_new(maze) ==
    [kind |-> "BFS",
     maze |-> maze,
     cell_statuses |-> fresh_statuses(maze),
     edge_queue |-> <<BFS_SearchEdge_init(maze.start)>>,
     progress |-> "InSearch",
     dist_grid |-> [c \in Coords(maze.shape) |-> None]]

BFSSearcher_reset(s) ==
    [s EXCEPT !.cell_statuses = fresh_statuses(s.maze),
              !.edge_queue = <<BFS_SearchEdge_init(s.maze.start)>>,
              !.progress = "InSearch",
              !.dist_grid = [c \in DOMAIN s.dist_grid |-> None]]

\* BFS_pop_effective_node that hands out the front edge whether or not its
\* target is finalized.
BFS_pop_front(edge_queue, dist_grid) ==
    IF edge_queue = <<>> THEN [edge |-> None, rest |-> <<>>]
    ELSE [edge |-> Some(Head(edge_queue)), rest |-> Tail(edge_queue)]

\* pop_effective_node with pop_back in the place of pop_front.
RECURSIVE BFS_pop_back(_, _)
BFS_pop_back(edge_queue, dist_grid) ==
    IF edge_queue = <<>> THEN [edge |-> None, rest |-> <<>>]
    ELSE LET edge == edge_queue[Len(edge_queue)]
             rest == SubSeq(edge_queue, 1, Len(edge_queue) - 1)
         IN  IF dist_grid[edge.to] = None
             THEN [edge |-> Some(edge), rest |-> rest]
             ELSE BFS_pop_back(rest, dist_grid)

\* pop_effective_node: pops until an edge to an unfinalized cell comes out.
RECURSIVE BFS_pop_effective_node(_, _)
BFS_pop_effective_node(edge_queue, dist_grid) ==
    IF edge_queue = <<>> THEN [edge |-> None, rest |-> <<>>]
    ELSE IF dist_grid[Head(edge_queue).to] = None
         THEN [edge |-> Some(Head(edge_queue)), rest |-> Tail(edge_queue)]
         ELSE BFS_pop_effective_node(Tail(edge_queue), dist_grid)

\* BFS_expand that leaves out the neighbour the edge came from.
BFS_expand_without_return(maze, edge) ==
    LET adj == SelectSeq(passable_adjacent(maze, edge.to),
                         LAMBDA a : edge.from = None \/ a # edge.from[1])
    IN  [i \in 1..Len(adj) |-> BFS_SearchEdge_next(edge, adj[i])]

\* The edges pushed to the back of the queue when edge.to is expanded.
BFS_expand(maze, edge) ==
    LET adj == passable_adjacent(maze, edge.to)
    IN  [i \in 1..Len(adj) |-> BFS_SearchEdge_next(edge, adj[i])]

\* BFS_move that also marks the neighbours of edge.to visited (as if a cell
\* were marked when it is queued).
BFS_move_marking_neighbours(shape, statuses, edge) ==
    LET st1 == IF edge.from = None THEN statuses
               ELSE [statuses EXCEPT ![edge.from[1]] = exit(@, FALSE)]
        rd1 == IF edge.from = None THEN <<>>
               ELSE <<ReservedRedraw(shape, edge.from[1], st1[edge.from[1]])>>
        st2 == [st1 EXCEPT ![edge.to] = enter(@, FALSE)]
        adj == adjacent_coordinates(shape, edge.to)
        st3 == [c \in DOMAIN st2 |->
                  IF \E i \in 1..Len(adj) : adj[i] = c
                  THEN [st2[c] EXCEPT !.visited = TRUE] ELSE st2[c]]
    IN  <<st3, Append(rd1, ReservedRedraw(shape, edge.to, st3[edge.to]))>>

\* The visible update of one finalization: exit edge.from, enter edge.to.
\* The pair <<cell_statuses, reserved_redraws>>.
BFS_move(shape, statuses, edge) ==
    LET st1 == IF edge.from = None THEN statuses
               ELSE [statuses EXCEPT ![edge.from[1]] = exit(@, FALSE)]
        rd1 == IF edge.from = None THEN <<>>
               ELSE <<ReservedRedraw(shape, edge.from[1], st1[edge.from[1]])>>
        st2 == [st1 EXCEPT ![edge.to] = enter(@, FALSE)]
    IN  <<st2, Append(rd1, ReservedRedraw(shape, edge.to, st2[edge.to]))>>

\* let Some(edge) = pop_effective_node() else { NoSolution; return Ok(vec![]) }
BFS_exhausted(s, rest) ==
    Outcome([s EXCEPT !.edge_queue = rest, !.progress = "NoSolution"], "Ok", <<>>,
            Len(s.edge_queue))

\* advance past its progress check.
BFS_advance_in_search(s) ==
    LET pop == BFS_pop_effective_node(s.edge_queue, s.dist_grid) IN
    IF pop.edge = None THEN BFS_exhausted(s, pop.rest)
    ELSE
    LET edge == pop.edge[1]
        skipped == Len(s.edge_queue) - Len(pop.rest) - 1
        dist_grid == [s.dist_grid EXCEPT ![edge.to] = Some(edge.distance)]
        moved == BFS_move(s.maze.shape, s.cell_statuses, edge)
        s1 == [s EXCEPT !.edge_queue = pop.rest, !.dist_grid = dist_grid,
                        !.cell_statuses = moved[1]]
    IN  IF edge.to = s.maze.goal
        THEN LET path == restore_path(s.maze, dist_grid, <<s.maze.goal>>, edge.distance)
             IN  IF path = None THEN Outcome(s1, "Panic", <<>>, skipped)
                 ELSE LET marked == mark_path(s.maze.shape, moved[1], moved[2], path[1])
                      IN  Outcome([s1 EXCEPT !.cell_statuses = marked[1],
                                             !.progress = "Solved"], "Ok", marked[2], skipped)
        ELSE Outcome([s1 EXCEPT !.edge_queue = pop.rest \o BFS_expand(s.maze, edge)],
                     "Ok", moved[2], skipped)

BFSSearcher_advance(s) ==
    IF s.progress # "InSearch" THEN Outcome(s, "Err", <<>>, 0)
    ELSE BFS_advance_in_search(s)

\* ---------------------------------------------------- maze/searcher/dfs.rs

DFS_SearchEdge_init(start) == [from |-> None, to |-> start, forward |-> TRUE]

DFS_SearchEdge_back(edge) == [edge EXCEPT !.forward = FALSE]

DFS_SearchEdge_next_forward(edge, next) ==
    [from |-> Some(edge.to), to |-> next, forward |-> TRUE]

\* The edge stack is a sequence whose last element is the top.
DFS_init_stack(start) ==
    <<DFS_SearchEdge_back(DFS_SearchEdge_init(start)), DFS_SearchEdge_init(start)>>

DFSSearcher_new(maze) ==
    [kind |-> "DFS",
     maze |-> maze,
     cell_statuses |-> fresh_statuses(maze),
     edge_stack |-> DFS_init_stack(maze.start),
     progress |-> "InSearch",
     path |-> <<>>]

\* DFSSearcher_reset that leaves the path stack as it is.
DFSSearcher_reset_keeping_path(s) ==
    [s EXCEPT !.cell_statuses = fresh_statuses(s.maze),
              !.edge_stack = DFS_init_stack(s.maze.start),
              !.progress = "InSearch"]

DFSSearcher_reset(s) ==
    [s EXCEPT !.cell_statuses = fresh_statuses(s.maze),
              !.edge_stack = DFS_init_stack(s.maze.start),
              !.progress = "InSearch",
              !.path = <<>>]

\* pop_effective_edge: pops until a backward edge, or a forward edge to an
\* unvisited cell, comes out.
RECURSIVE DFS_pop_effective_edge(_, _)
DFS_pop_effective_edge(edge_stack, cell_statuses) ==
    IF edge_stack = <<>> THEN [edge |-> None, rest |-> <<>>]
    ELSE LET edge == edge_stack[Len(edge_stack)]
             rest == SubSeq(edge_stack, 1, Len(edge_stack) - 1)
         IN  IF ~edge.forward \/ ~cell_statuses[edge.to].visited
             THEN [edge |-> Some(edge), rest |-> rest]
             ELSE DFS_pop_effective_edge(rest, cell_statuses)

\* DFS_expand that pushes no backward edge.
DFS_expand_without_back(maze, edge) ==
    LET adj == passable_adjacent(maze, edge.to)
    IN  [i \in 1..Len(adj) |-> DFS_SearchEdge_next_forward(edge, adj[i])]

\* What a forward edge pushes: its own backward edge, then a forward edge to
\* every passable neighbour.
DFS_expand(maze, edge) ==
    LET adj == passable_adjacent(maze, edge.to)
    IN  <<DFS_SearchEdge_back(edge)>>
        \o [i \in 1..Len(adj) |-> DFS_SearchEdge_next_forward(edge, adj[i])]

\* DFS_update_path that never pops on a backward edge.
DFS_update_path_push_only(path, edge) ==
    IF edge.forward THEN Append(path, edge.to) ELSE path

\* Update the path: push on a forward edge, pop on a backward edge.
DFS_update_path(path, edge) ==
    IF edge.forward THEN Append(path, edge.to)
    ELSE IF path = <<>> THEN <<>>
    ELSE SubSeq(path, 1, Len(path) - 1)

\* DFS_move whose backward step leaves the footprint of the cell it exits.
DFS_move_keeping_footprint(shape, statuses, edge) ==
    LET st1 == IF edge.from = None THEN statuses
               ELSE [statuses EXCEPT ![edge.from[1]] =
                        IF edge.forward THEN exit(@, TRUE) ELSE enter(@, TRUE)]
        rd1 == IF edge.from = None THEN <<>>
               ELSE <<ReservedRedraw(shape, edge.from[1], st1[edge.from[1]])>>
        st2 == [st1 EXCEPT ![edge.to] =
                   IF edge.forward THEN enter(@, TRUE) ELSE exit(@, TRUE)]
    IN  <<st2, Append(rd1, ReservedRedraw(shape, edge.to, st2[edge.to]))>>

\* The visible update of one step, as <<cell_statuses, reserved_redraws>>.
DFS_move(shape, statuses, edge) ==
    LET st1 == IF edge.from = None THEN statuses
               ELSE [statuses EXCEPT ![edge.from[1]] =
                        IF edge.forward THEN exit(@, TRUE) ELSE enter(@, TRUE)]
        rd1 == IF edge.from = None THEN <<>>
               ELSE <<ReservedRedraw(shape, edge.from[1], st1[edge.from[1]])>>
        st2 == [st1 EXCEPT ![edge.to] =
                   IF edge.forward THEN enter(@, TRUE) ELSE exit(@, FALSE)]
    IN  <<st2, Append(rd1, ReservedRedraw(shape, edge.to, st2[edge.to]))>>

DFS_exhausted(s, rest) ==
    Outcome([s EXCEPT !.edge_stack = rest, !.progress = "NoSolution"], "Ok", <<>>,
            Len(s.edge_stack))

\* advance past its progress check.
DFS_advance_in_search(s) ==
    LET pop == DFS_pop_effective_edge(s.edge_stack, s.cell_statuses) IN
    IF pop.edge = None THEN DFS_exhausted(s, pop.rest)
    ELSE
    LET edge == pop.edge[1]
        skipped == Len(s.edge_stack) - Len(pop.rest) - 1
        path == DFS_update_path(s.path, edge)
        stack == IF edge.forward THEN pop.rest \o DFS_expand(s.maze, edge) ELSE pop.rest
        moved == DFS_move(s.maze.shape, s.cell_statuses, edge)
        s1 == [s EXCEPT !.edge_stack = stack, !.path = path, !.cell_statuses = moved[1]]
    IN  IF edge.forward /\ s.cell_statuses[edge.to].visited
        THEN Outcome([s EXCEPT !.edge_stack = pop.rest, !.path = path], "Panic", <<>>,
                     skipped)
        ELSE IF edge.to = s.maze.goal
        THEN LET marked == mark_path(s.maze.shape, moved[1], moved[2], path)
             IN  Outcome([s1 EXCEPT !.cell_statuses = marked[1], !.progress = "Solved"],
                         "Ok", marked[2], skipped)
        ELSE Outcome(s1, "Ok", moved[2], skipped)

\* DFSSearcher_advance without its progress check.
DFSSearcher_advance_unchecked(s) == DFS_advance_in_search(s)

DFSSearcher_advance(s) ==
    IF s.progress # "InSearch" THEN Outcome(s, "Err", <<>>, 0)
    ELSE DFS_advance_in_search(s)

\* -------------------------------------------------- maze/searcher/astar.rs

abs_diff(a, b) == IF a >= b THEN a - b ELSE b - a

calculate_manhattan_distance(coord1, coord2) ==
    abs_diff(coord1[1], coord2[1]) + abs_diff(coord2[2], coord2[2])

ASter_SearchEdge_init(start) == [from |-> None, to |-> start, distance |-> 0]

ASter_SearchEdge_next(edge, next) ==
    [from |-> Some(edge.to), to |-> next, distance |-> edge.distance + 1]

WeightedEdge(edge, weight) == [edge |-> edge, weight |-> weight]

\* The edge heap is the set of its entries: a cell is expanded at most once
\* between resets, so no two entries agree on (from, to).
ASter_init_heap(maze) ==
    {WeightedEdge(ASter_SearchEdge_init(maze.start),
                  calculate_manhattan_distance(maze.start, maze.goal))}

ASterSearcher_new(maze) ==
    [kind |-> "A*",
     maze |-> maze,
     cell_statuses |-> fresh_statuses(maze),
     edge_heap |-> ASter_init_heap(maze),
     progress |-> "InSearch",
     dist_grid |-> [c \in Coords(maze.shape) |-> None]]

ASterSearcher_reset(s) ==
    [s EXCEPT !.cell_statuses = fresh_statuses(s.maze),
              !.edge_heap = ASter_init_heap(s.maze),
              !.progress = "InSearch",
              !.dist_grid = [c \in DOMAIN s.dist_grid |-> None]]

\* BinaryHeap<Reverse<WeightedEdge>>::pop hands out an entry of least weight;
\* which one among entries of equal weight is left to the heap, so every one
\* of them is a possible pop.
heap_pop_choices(edge_heap) ==
    {e \in edge_heap : \A f \in edge_heap : e.weight <= f.weight}

\* pop_effective_node: every way the pop loop can end, as [edge, rest].
RECURSIVE ASter_pop_effective_node(_, _)
ASter_pop_effective_node(edge_heap, dist_grid) ==
    IF edge_heap = {} THEN {[edge |-> None, rest |-> {}]}
    ELSE UNION {
            IF dist_grid[e.edge.to] = None
            THEN {[edge |-> Some(e.edge), rest |-> edge_heap \ {e}]}
            ELSE ASter_pop_effective_node(edge_heap \ {e}, dist_grid)
         : e \in heap_pop_choices(edge_heap)}

\* ASter_weight that forgets the path length so far (greedy best-first).
ASter_weight_heuristic_only(maze, edge, adj_coord) ==
    calculate_manhattan_distance(adj_coord, maze.goal)

\* The weight given to the edge into adj_coord when edge.to is expanded.
ASter_weight(maze, edge, adj_coord) ==
    edge.distance + 1 + calculate_manhattan_distance(adj_coord, maze.goal)

\* The entries pushed on the heap when edge.to is expanded.
ASter_expand(maze, edge) ==
    LET adj == passable_adjacent(maze, edge.to)
    IN  {WeightedEdge(ASter_SearchEdge_next(edge, adj[i]), ASter_weight(maze, edge, adj[i]))
         : i \in 1..Len(adj)}

\* ASter_move that reserves no redraw for the cell it exits.
ASter_move_without_exit_redraw(shape, statuses, edge) ==
    LET st1 == IF edge.from = None THEN statuses
               ELSE [statuses EXCEPT ![edge.from[1]] = exit(@, FALSE)]
        st2 == [st1 EXCEPT ![edge.to] = enter(@, FALSE)]
    IN  <<st2, <<ReservedRedraw(shape, edge.to, st2[edge.to])>> >>

\* The visible update of one finalization: exit edge.from, enter edge.to.
\* The pair <<cell_statuses, reserved_redraws>>.
ASter_move(shape, statuses, edge) ==
    LET st1 == IF edge.from = None THEN statuses
               ELSE [statuses EXCEPT ![edge.from[1]] = exit(@, FALSE)]
        rd1 == IF edge.from = None THEN <<>>
               ELSE <<ReservedRedraw(shape, edge.from[1], st1[edge.from[1]])>>
        st2 == [st1 EXCEPT ![edge.to] = enter(@, FALSE)]
    IN  <<st2, Append(rd1, ReservedRedraw(shape, edge.to, st2[edge.to]))>>

\* ASter_exhausted that also clears the stay marker of every cell.
ASter_exhausted_clearing_stay(s, rest) ==
    Outcome([s EXCEPT !.edge_heap = rest, !.progress = "NoSolution",
                      !.cell_statuses = [c \in DOMAIN s.cell_statuses |->
                                            [s.cell_statuses[c] EXCEPT !.stay = FALSE]]],
            "Ok", <<>>, Cardinality(s.edge_heap))

ASter_exhausted(s, rest) ==
    Outcome([s EXCEPT !.edge_heap = rest, !.progress = "NoSolution"], "Ok", <<>>,
            Cardinality(s.edge_heap))

\* advance once the pop loop has ended with `pop`.
ASter_advance_popped(s, pop) ==
    IF pop.edge = None THEN ASter_exhausted(s, pop.rest)
    ELSE
    LET edge == pop.edge[1]
        skipped == Cardinality(s.edge_heap) - Cardinality(pop.rest) - 1
        dist_grid == [s.dist_grid EXCEPT ![edge.to] = Some(edge.distance)]
        moved == ASter_move(s.maze.shape, s.cell_statuses, edge)
        s1 == [s EXCEPT !.edge_heap = pop.rest, !.dist_grid = dist_grid,
                        !.cell_statuses = moved[1]]
    IN  IF edge.to = s.maze.goal
        THEN LET path == restore_path(s.maze, dist_grid, <<s.maze.goal>>, edge.distance)
             IN  IF path = None THEN Outcome(s1, "Panic", <<>>, skipped)
                 ELSE LET marked == mark_path(s.maze.shape, moved[1], moved[2], path[1])
                      IN  Outcome([s1 EXCEPT !.cell_statuses = marked[1],
                                             !.progress = "Solved"], "Ok", marked[2], skipped)
        ELSE Outcome([s1 EXCEPT !.edge_heap = pop.rest \cup ASter_expand(s.maze, edge)],
                     "Ok", moved[2], skipped)

\* advance past its progress check: one outcome per way the heap breaks ties.
ASter_advance_in_search(s) ==
    {ASter_advance_popped(s, pop) :
        pop \in ASter_pop_effective_node(s.edge_heap, s.dist_grid)}

\* The set of outcomes of one advance call.
ASterSearcher_advance(s) ==
    IF s.progress # "InSearch" THEN {Outcome(s, "Err", <<>>, 0)}
    ELSE ASter_advance_in_search(s)

\* ------------------------------------- trait MazeSearcher, create_searcher

AlgorithmNames == {"DFS", "BFS", "A*"}

\* create_searcher matching the name whatever its case.
create_searcher_ignoring_case(maze, algorithm) ==
    CASE algorithm \in {"DFS", "dfs"} -> DFSSearcher_new(maze)
      [] algorithm \in {"BFS", "bfs"} -> BFSSearcher_new(maze)
      [] algorithm \in {"A*", "a*"} -> ASterSearcher_new(maze)
      [] OTHER -> None

\* The boxed engine for the name, or None where the match arm panics.
create_searcher(maze, algorithm) ==
    CASE algorithm = "DFS" -> DFSSearcher_new(maze)
      [] algorithm = "BFS" -> BFSSearcher_new(maze)
      [] algorithm = "A*" -> ASterSearcher_new(maze)
      [] OTHER -> None

MazeSearcher_reset(s) ==
    CASE s.kind = "DFS" -> DFSSearcher_reset(s)
      [] s.kind = "BFS" -> BFSSearcher_reset(s)
      [] s.kind = "A*" -> ASterSearcher_reset(s)

\* The set of outcomes of searcher.advance().
MazeSearcher_advance(s) ==
    CASE s.kind = "DFS" -> {DFSSearcher_advance(s)}
      [] s.kind = "BFS" -> {BFSSearcher_advance(s)}
      [] s.kind = "A*" -> ASterSearcher_advance(s)

\* ------------------------------------------------- maze/generate_maze.rs

MAX_CANDIDATE_ENDPOINTS == 10

\* (rows + 1) / 2 and (cols + 1) / 2: the number of even rows or columns.
effective(n) == (n + 1) \div 2

\* row.wrapping_add(diff_row.wrapping_mul(k)), col likewise.
displaced(coord, diff, k) == <<coord[1] + k * diff[1], coord[2] + k * diff[2]>>

\* slice::shuffle: every order of the elements of S is a possible result.
RECURSIVE shuffle(_)
shuffle(S) ==
    IF S = {} THEN {<<>>}
    ELSE UNION {{<<x>> \o p : p \in shuffle(S \ {x})} : x \in S}

\* The find_map closure's test: the lattice node two cells away in direction
\* diff lies inside the grid and is still a Wall.
can_dig(shape, cells, coord, diff) ==
    /\ in_range(shape, displaced(coord, diff, 2))
    /\ cells[displaced(coord, diff, 2)] = "Wall"

\* find_map over the shuffled displacements: the first direction that can be
\* dug, if any.
find_diff(shape, cells, coord, adjacent_diffs) ==
    LET found == {i \in 1..Len(adjacent_diffs) :
                    can_dig(shape, cells, coord, adjacent_diffs[i])}
    IN  IF found = {} THEN None
        ELSE Some(adjacent_diffs[CHOOSE i \in found : \A j \in found : i <= j])

\* The closure's writes with the intermediate cell left a Wall.
dig_lattice_node_only(cells, coord, diff) ==
    [cells EXCEPT ![displaced(coord, diff, 2)] = "Passage"]

\* The closure's writes: the intermediate cell and the lattice node two cells
\* away both become Passage.
dig(cells, coord, diff) ==
    [cells EXCEPT ![displaced(coord, diff, 1)] = "Passage",
                  ![displaced(coord, diff, 2)] = "Passage"]

\* Vec::remove(0) in the place of Vec::remove(idx).
remove_first(pool, idx) == Tail(pool)

\* Vec::pop() in the place of Vec::remove(idx).
remove_last(pool, idx) == SubSeq(pool, 1, Len(pool) - 1)

\* Vec::remove(idx), idx counted from 0.
remove(pool, idx) ==
    SubSeq(pool, 1, idx) \o SubSeq(pool, idx + 2, Len(pool))

\* generate_maze(shape, rng) called and about to run.
generate_maze_call(shape) ==
    [pc |-> "generate_maze", shape |-> shape, cells |-> <<>>,
     coordinates_pool |-> <<>>, idx |-> 0, iterations |-> 0,
     coord_pairs |-> <<>>, maze |-> None]

\* The first assert with "or" in the place of "and".
generate_maze_asserts_either_odd(shape) ==
    /\ (shape.rows % 2 = 1 \/ shape.cols % 2 = 1)
    /\ shape.rows * shape.cols >= 2

\* The two asserts of generate_maze: both hold, or it panics.
generate_maze_asserts(shape) ==
    /\ (shape.rows % 2 = 1 /\ shape.cols % 2 = 1)
    /\ shape.rows * shape.cols >= 2

\* generate_maze up to the loop of generate_partial_maze: the two asserts,
\* then an all-Wall grid and a pool holding one random lattice node.
generate_maze_enter(g) ==
    LET shape == g.shape IN
    IF ~generate_maze_asserts(shape)
    THEN {[g EXCEPT !.pc = "Panic"]}
    ELSE {[g EXCEPT !.pc = "carve",
                    !.cells = [coord \in Coords(shape) |-> "Wall"],
                    !.coordinates_pool = <<<<2 * r, 2 * c>>>>,
                    !.idx = 0] :
            r \in 0..(effective(shape.rows) - 1),
            c \in 0..(effective(shape.cols) - 1)}

\* One iteration of the loop of generate_partial_maze.  On break the function
\* returns the cells and its locals are gone.
generate_partial_maze_loop(g) ==
    LET coord == g.coordinates_pool[g.idx + 1]
        opened == [g.cells EXCEPT ![coord] = "Passage"]
        shuffled == shuffle({ADJACENT_DISPLACEMENT[i] : i \in 1..4})
        iterated == [g EXCEPT !.iterations = @ + 1]
        step(adjacent_diffs) ==
            LET diff == find_diff(g.shape, opened, coord, adjacent_diffs) IN
            IF diff # None
            THEN LET pool == Append(g.coordinates_pool, displaced(coord, diff[1], 2))
                 IN  {[iterated EXCEPT !.cells = dig(opened, coord, diff[1]),
                                       !.coordinates_pool = pool,
                                       !.idx = Len(pool) - 1]}
            ELSE LET pool == remove(g.coordinates_pool, g.idx) IN
                 IF pool = <<>>
                 THEN {[iterated EXCEPT !.pc = "select_endpoints",
                                        !.cells = opened,
                                        !.coordinates_pool = <<>>,
                                        !.idx = 0]}
                 ELSE {[iterated EXCEPT !.cells = opened,
                                        !.coordinates_pool = pool,
                                        !.idx = i] : i \in 0..(Len(pool) - 1)}
    IN  UNION {step(adjacent_diffs) : adjacent_diffs \in shuffled}

\* The cells pushed to the back of the queue by one visit, in
\* ADJACENT_DISPLACEMENT order.
path_length_neighbours(shape, cells, coord, dist) ==
    LET adj(i) == displaced(coord, ADJACENT_DISPLACEMENT[i], 1)
        passable(i) == in_range(shape, adj(i)) /\ is_passable(cells[adj(i)])
        kept == SelectSeq(<<1, 2, 3, 4>>, passable)
    IN  [k \in 1..Len(kept) |-> <<adj(kept[k]), dist + 1>>]

\* The while-let loop of calculate_path_length.
RECURSIVE calculate_path_length_loop(_, _, _, _, _)
calculate_path_length_loop(shape, cells, goal, coord_queue, visited) ==
    IF coord_queue = <<>> THEN None
    ELSE LET coord == Head(coord_queue)[1]
             dist == Head(coord_queue)[2]
         IN  IF coord \in visited
             THEN calculate_path_length_loop(shape, cells, goal,
                                             Tail(coord_queue), visited)
             ELSE IF coord = goal THEN Some(dist)
             ELSE calculate_path_length_loop(
                      shape, cells, goal,
                      Tail(coord_queue) \o path_length_neighbours(shape, cells, coord, dist),
                      visited \cup {coord})

calculate_path_length(shape, cells, start, goal) ==
    calculate_path_length_loop(shape, cells, goal, <<<<start, 0>>>>, {})

\* The number of in-range neighbours of (row, col) that are Passage cells.
count_degree_num(shape, cells, coord) ==
    Cardinality({i \in 1..4 :
        /\ in_range(shape, displaced(coord, ADJACENT_DISPLACEMENT[i], 1))
        /\ cells[displaced(coord, ADJACENT_DISPLACEMENT[i], 1)] = "Passage"})

\* iproduct!((0..=rows).step_by(2), (0..=cols).step_by(2)) filtered to the
\* coordinates of degree 1.
dead_ends(shape, cells) ==
    {coord \in {r \in 0..shape.rows : r % 2 = 0} \X {c \in 0..shape.cols : c % 2 = 0} :
        count_degree_num(shape, cells, coord) = 1}

\* combinations(2): each pair once, its members in iteration (row-major) order.
combinations2(shape, coords) ==
    {<<a, b>> : a \in coords, b \in coords} \cap
    {p \in coords \X coords : coord_to_idx(shape, p[1]) < coord_to_idx(shape, p[2])}

\* Vec::truncate(len).
truncate(list, len) == IF Len(list) > len THEN SubSeq(list, 1, len) ELSE list

\* A fold that keeps the FIRST element among those of greatest key.
RECURSIVE max_by_key_fold_first(_, _, _, _)
max_by_key_fold_first(shape, cells, best, list) ==
    IF list = <<>> THEN best
    ELSE LET key(coord_pair) ==
                 calculate_path_length(shape, cells, coord_pair[1], coord_pair[2])[1]
         IN  max_by_key_fold_first(shape, cells,
                                   IF key(Head(list)) > key(best) THEN Head(list) ELSE best,
                                   Tail(list))

\* Iterator::max_by_key: None on an empty list, otherwise the LAST element
\* among those of greatest key (a later element replaces the running maximum
\* unless its key is smaller).
RECURSIVE max_by_key_fold(_, _, _, _)
max_by_key_fold(shape, cells, best, list) ==
    IF list = <<>> THEN best
    ELSE LET key(coord_pair) ==
                 calculate_path_length(shape, cells, coord_pair[1], coord_pair[2])[1]
         IN  max_by_key_fold(shape, cells,
                             IF key(Head(list)) >= key(best) THEN Head(list) ELSE best,
                             Tail(list))

max_by_key(shape, cells, list) ==
    IF list = <<>> THEN None
    ELSE Some(max_by_key_fold(shape, cells, Head(list), Tail(list)))

\* The rest of generate_maze, after generate_partial_maze has returned:
\* select_endpoints, the Start and Goal cells, and the MazeGrid.  Either
\* unwrap panics on None.
generate_maze_finish(g) ==
    LET shape == g.shape
        candidates == {truncate(list, MAX_CANDIDATE_ENDPOINTS) :
                         list \in shuffle(combinations2(shape, dead_ends(shape, g.cells)))}
        unconnected(list) ==
            \E i \in 1..Len(list) :
                calculate_path_length(shape, g.cells, list[i][1], list[i][2]) = None
        finish(coord_pairs) ==
            IF coord_pairs = <<>> \/ unconnected(coord_pairs)
            THEN {[g EXCEPT !.pc = "Panic", !.coord_pairs = coord_pairs]}
            ELSE LET coord_pair == max_by_key(shape, g.cells, coord_pairs)[1] IN
                 {[g EXCEPT !.pc = "returned",
                            !.coord_pairs = coord_pairs,
                            !.maze = Some([shape |-> MazeShape_new(shape.rows, shape.cols),
                                           cells |-> [g.cells EXCEPT ![ends[1]] = "Start",
                                                                     ![ends[2]] = "Goal"],
                                           start |-> ends[1],
                                           goal |-> ends[2]])] :
                    ends \in shuffle({coord_pair[1], coord_pair[2]})}
    IN  UNION {finish(coord_pairs) : coord_pairs \in candidates}

\* ------------------------------------------------------ visualizer/mod.rs

\* initialize_maze_drawing with every cell drawn as a Passage.
initialize_maze_drawing_blank(maze) ==
    [i \in 0..(area(maze.shape) - 1) |-> MazeCellStatus_new("Passage")]

\* initialize_maze_drawing: one unexplored entry per cell, in row-major order.
initialize_maze_drawing(maze) ==
    [i \in 0..(area(maze.shape) - 1) |->
        MazeCellStatus_new(maze.cells[idx_to_coord(maze.shape, i)])]

\* advance_search's loop: handle.redraw_cell(cell_idx, status) for each
\* redraw, in list order.
RECURSIVE redraw_cells(_, _)
redraw_cells(model, redraws) ==
    IF redraws = <<>> THEN model
    ELSE redraw_cells([model EXCEPT ![Head(redraws).cell_idx] = Head(redraws).status],
                      Tail(redraws))

\* ------------------------------------------------------- hand-built mazes

Shapes ==
    {sh \in {MazeShape_new(r, c) : r \in 1..MaxRows, c \in 1..MaxCols} :
        2 <= area(sh) /\ area(sh) <= MaxArea}

\* A MazeGrid of the data model: one Start cell at `start`, one Goal cell at
\* `goal`, every other cell a Wall or a Passage.
MazeGrid(shape, start, goal, walls) ==
    [shape |-> shape,
     cells |-> [c \in Coords(shape) |->
                  IF c = start THEN "Start"
                  ELSE IF c = goal THEN "Goal"
                  ELSE IF c \in walls THEN "Wall" ELSE "Passage"],
     start |-> start,
     goal |-> goal]

\* ------------------------------------------------------------ the machine

\* The record of a trait call: the method, the progress it found, what it
\* returned, and the number of stale frontier entries its pop loop discarded.
Call(op, before, result, redraws, skipped) ==
    [op |-> op, before |-> before, result |-> result, redraws |-> redraws,
     skipped |-> skipped]

\* The engine create_searcher builds for `algorithm` on the hand-built maze,
\* not yet advanced, and the renderer showing that maze.
Attached(shape, start, goal, walls, algorithm) ==
    LET maze == MazeGrid(shape, start, goal, walls) IN
        /\ searcher = create_searcher(maze, algorithm)
        /\ lastCall = Call("new", "InSearch", "Ok", <<>>, 0)
        /\ view = initialize_maze_drawing(maze)
        /\ advances = 0
        /\ gen = None
        /\ ui = None

\* Any sparse maze within the bounds (few passages: corridors, dead ends,
\* walled-off goals, a 2x2 block), attached to any of the engines.
Init ==
    \E shape \in Shapes, algorithm \in AlgorithmNames :
    \E start \in Coords(shape) :
    \E goal \in Coords(shape) \ {start} :
    \E walls \in SUBSET (Coords(shape) \ {start, goal}) :
        /\ area(shape) - 2 - Cardinality(walls) <= MaxPassages
        /\ Attached(shape, start, goal, walls, algorithm)

\* Any open maze within the bounds (few walls: rings and grids with several
\* routes of different lengths), attached to any of the engines.
InitOpen ==
    \E shape \in Shapes, algorithm \in AlgorithmNames :
    \E start \in Coords(shape) :
    \E goal \in Coords(shape) \ {start} :
    \E walls \in SUBSET (Coords(shape) \ {start, goal}) :
        /\ Cardinality(walls) <= MaxWalls
        /\ Attached(shape, start, goal, walls, algorithm)

\* A call of the trait's advance() by any client, in any state of the engine
\* (advance_search makes it only after terminated() returned false), with the
\* returned redraws applied to the renderer in list order as advance_search
\* does.  A panic ends the process.
Advance ==
    /\ lastCall.result # "Panic"
    /\ \E o \in MazeSearcher_advance(searcher) :
        /\ searcher' = o.searcher
        /\ lastCall' = Call("advance", searcher.progress, o.result, o.redraws,
                            o.skipped)
        /\ view' = redraw_cells(view, o.redraws)
        /\ advances' = IF searcher.progress = "InSearch" THEN advances + 1 ELSE advances
    /\ UNCHANGED <<gen, ui>>

\* The reset button: searcher.reset(), then initialize_maze_drawing.
Reset ==
    /\ lastCall.result # "Panic"
    /\ searcher' = MazeSearcher_reset(searcher)
    /\ lastCall' = Call("reset", searcher.progress, "Ok", <<>>, 0)
    /\ view' = initialize_maze_drawing(searcher'.maze)
    /\ advances' = 0
    /\ UNCHANGED <<gen, ui>>

Next == Advance \/ Reset

Spec == Init /\ [][Next]_vars

\* One search, advanced to its end, over an open maze.
SpecOpen == InitOpen /\ [][Advance]_vars

\* ------------------------------------------------- the generator's machine

\* The shapes generate_maze is called with: every shape, valid or not, whose
\* lattice of even rows and columns and whose area are within the bounds.
GenShapes ==
    {sh \in {MazeShape_new(r, c) : r \in 1..(2 * MaxEffectiveRows - 1),
                                   c \in 1..(2 * MaxEffectiveCols - 1)} :
        area(sh) <= MaxGeneratedArea}

\* A call of generate_maze about to run; no engine is attached meanwhile.
InitGen ==
    /\ \E shape \in GenShapes : gen = generate_maze_call(shape)
    /\ searcher = None
    /\ lastCall = Call("none", "InSearch", "Ok", <<>>, 0)
    /\ view = <<>>
    /\ advances = 0
    /\ ui = None

\* generate_maze from its entry to the first loop iteration.
GenerateMaze ==
    /\ gen.pc = "generate_maze"
    /\ gen' \in generate_maze_enter(gen)
    /\ UNCHANGED <<searcher, lastCall, view, advances, ui>>

\* One iteration of the carving loop.
Carve ==
    /\ gen.pc = "carve"
    /\ gen' \in generate_partial_maze_loop(gen)
    /\ UNCHANGED <<searcher, lastCall, view, advances, ui>>

\* The endpoint selection and the return of the MazeGrid.
SelectEndpoints ==
    /\ gen.pc = "select_endpoints"
    /\ gen' \in generate_maze_finish(gen)
    /\ UNCHANGED <<searcher, lastCall, view, advances, ui>>

NextGen == GenerateMaze \/ Carve \/ SelectEndpoints

SpecGen == InitGen /\ [][NextGen]_vars

\* ------------------------------------- visualizer/mod.rs: the Visualizer

\* The strings the window's selected-search-algorithm property is taken to
\* hold: the three names and strings that differ from them in case, in
\* surrounding spaces, or altogether.
AlgorithmInputs == AlgorithmNames \cup {"dfs", " BFS ", "Dijkstra"}

\* The shapes the application is configured with: valid shapes whose lattice
\* is within the bound.
VisualizerShapes ==
    {MazeShape_new(2 * r - 1, 2 * c - 1) :
        <<r, c>> \in {p \in (1..MaxVisualizerNodes) \X (1..MaxVisualizerNodes) :
                        2 <= p[1] * p[2] /\ p[1] * p[2] <= MaxVisualizerNodes}}

\* spawn_auto_search_task: a new channel, and a new thread at the top of the
\* loop of auto_search_maze.  signals counts the Interrupt messages in the
\* channel; interrupted and advanced_since record whether one was ever sent
\* and the advance calls the thread made since.
AutoSearchTask(id) ==
    [id |-> id, pc |-> "try_recv", signals |-> 0,
     interrupted |-> FALSE, advanced_since |-> 0]

\* An identity no thread of the set has.
unused_id(threads) ==
    CHOOSE i \in 0..Cardinality(threads) : \A t \in threads : t.id # i

the_thread(u, id) == CHOOSE t \in u.threads : t.id = id

\* Whether the thread's function has returned or panicked.
is_finished(t) == t.pc \in {"finished", "panicked"}

\* interrupt_search with the join left out: the slot is emptied and the
\* caller goes on at once.
interrupt_search_without_join(u, after) ==
    IF u.task = None THEN [u EXCEPT !.pc = after]
    ELSE LET t == the_thread(u, u.task[1])
             sent == IF is_finished(t) THEN t
                     ELSE [t EXCEPT !.signals = @ + 1, !.interrupted = TRUE]
         IN  [u EXCEPT !.task = None,
                       !.threads = (@ \ {t}) \cup {sent},
                       !.pc = after]

\* interrupt_search up to the join: the task is taken out of the slot and
\* Interrupt is sent (the send fails, and is ignored, when the thread has
\* ended and dropped its receiver); with an empty slot nothing is done.
\* `after` is where the caller goes on.
interrupt_search(u, after) ==
    IF u.task = None THEN [u EXCEPT !.pc = after]
    ELSE LET t == the_thread(u, u.task[1])
             sent == IF is_finished(t) THEN t
                     ELSE [t EXCEPT !.signals = @ + 1, !.interrupted = TRUE]
         IN  [u EXCEPT !.task = None,
                       !.threads = (@ \ {t}) \cup {sent},
                       !.pc = "join",
                       !.joining = Some(t.id),
                       !.after = after]

\* handle.join().unwrap(): the joined thread is gone; a thread that panicked
\* makes the unwrap panic.
join(u) ==
    LET t == the_thread(u, u.joining[1]) IN
    IF t.pc = "panicked" THEN [u EXCEPT !.pc = "Panic"]
    ELSE [u EXCEPT !.threads = @ \ {t}, !.joining = None, !.pc = u.after]

\* The play/pause callback emptying the slot itself (the task is dropped,
\* which detaches the thread) in the place of interrupt_search.
play_pause_dropping_task(u) ==
    IF u.task # None THEN [u EXCEPT !.task = None]
    ELSE LET id == unused_id(u.threads) IN
         [u EXCEPT !.threads = @ \cup {AutoSearchTask(id)}, !.task = Some(id)]

\* The play/pause callback's test inverted: a task is spawned over the one in
\* the slot.
play_pause_always_spawning(u) ==
    LET id == unused_id(u.threads) IN
        [u EXCEPT !.threads = @ \cup {AutoSearchTask(id)}, !.task = Some(id)]

\* The play/pause callback: interrupt the task in the slot, or spawn one into
\* the empty slot.
play_pause(u) ==
    IF u.task # None THEN interrupt_search(u, "idle")
    ELSE LET id == unused_id(u.threads) IN
         [u EXCEPT !.threads = @ \cup {AutoSearchTask(id)}, !.task = Some(id)]

\* The top of the loop of auto_search_maze checking the channel after the
\* advance instead of before it.
try_recv_ignored(t) == [t EXCEPT !.pc = "terminated"]

\* The top of the loop of auto_search_maze with the blocking recv in the
\* place of try_recv: the thread waits for an Interrupt.
try_recv_blocking(t) ==
    IF t.signals > 0 THEN [t EXCEPT !.signals = @ - 1, !.pc = "finished"]
    ELSE t

\* The top of the loop of auto_search_maze: break on a received Interrupt.
try_recv(t) ==
    IF t.signals > 0 THEN [t EXCEPT !.signals = @ - 1, !.pc = "finished"]
    ELSE [t EXCEPT !.pc = "terminated"]

\* main: the maze generate_maze is building is awaited; no window is shown,
\* no engine exists and no callback is set yet.
InitVisualizer ==
    /\ \E shape \in VisualizerShapes : gen = generate_maze_call(shape)
    /\ \E name \in AlgorithmInputs :
        ui = [pc |-> "main", selected |-> name, task |-> None, threads |-> {},
              joining |-> None, after |-> "idle", maze |-> None]
    /\ searcher = None
    /\ lastCall = Call("none", "InSearch", "Ok", <<>>, 0)
    /\ view = <<>>
    /\ advances = 0

\* main after generate_maze: DFSSearcher::new, then Visualizer::new draws the
\* maze, wraps the engine and sets the callbacks; the event loop runs.
VisualizerNew ==
    /\ ui.pc = "main" /\ gen.pc = "returned"
    /\ searcher' = DFSSearcher_new(gen.maze[1])
    /\ view' = initialize_maze_drawing(gen.maze[1])
    /\ ui' = [ui EXCEPT !.pc = "idle"]
    /\ UNCHANGED <<lastCall, advances, gen>>

\* The play/pause callback, up to the join when it interrupts.
PlayPauseCallback ==
    /\ ui.pc = "idle"
    /\ ui' = play_pause(ui)
    /\ UNCHANGED <<searcher, lastCall, view, advances, gen>>

\* The advance callback up to the join of interrupt_search.
AdvanceCallback ==
    /\ ui.pc = "idle"
    /\ ui' = interrupt_search(ui, "advance_search")
    /\ UNCHANGED <<searcher, lastCall, view, advances, gen>>

\* The reset callback up to the join of interrupt_search.
ResetCallback ==
    /\ ui.pc = "idle"
    /\ ui' = interrupt_search(ui, "reset")
    /\ UNCHANGED <<searcher, lastCall, view, advances, gen>>

\* The change callback calls generate_maze with the shape it captured.
ChangeCallback ==
    /\ ui.pc = "idle"
    /\ gen' = generate_maze_call(searcher.maze.shape)
    /\ ui' = [ui EXCEPT !.pc = "change"]
    /\ UNCHANGED <<searcher, lastCall, view, advances>>

\* The change callback once generate_maze has returned: update_maze_searcher
\* up to the join of interrupt_search.
ChangeUpdate ==
    /\ ui.pc = "change" /\ gen.pc = "returned"
    /\ ui' = interrupt_search([ui EXCEPT !.maze = gen.maze], "initialize_maze_drawing")
    /\ UNCHANGED <<searcher, lastCall, view, advances, gen>>

\* The select-algorithm callback, run after the window's selection changed:
\* the maze is cloned, then update_maze_searcher up to the join of
\* interrupt_search.
SelectAlgorithmCallback ==
    /\ ui.pc = "idle"
    /\ \E name \in AlgorithmInputs :
        ui' = interrupt_search([ui EXCEPT !.selected = name,
                                          !.maze = Some(searcher.maze)],
                               "initialize_maze_drawing")
    /\ UNCHANGED <<searcher, lastCall, view, advances, gen>>

\* interrupt_search's join, which returns once the thread has ended.
Join ==
    /\ ui.pc = "join"
    /\ is_finished(the_thread(ui, ui.joining[1]))
    /\ ui' = join(ui)
    /\ UNCHANGED <<searcher, lastCall, view, advances, gen>>

\* advance_search on the event-loop thread: the first acquisition of the
\* lock, for terminated().
AdvanceSearchTerminated ==
    /\ ui.pc = "advance_search"
    /\ ui' = [ui EXCEPT !.pc = IF terminated(searcher) THEN "idle" ELSE "advance"]
    /\ UNCHANGED <<searcher, lastCall, view, advances, gen>>

\* advance_search on the event-loop thread: the second acquisition of the
\* lock, advance().unwrap(), and the redraws.
AdvanceSearchAdvance ==
    /\ ui.pc = "advance"
    /\ \E o \in MazeSearcher_advance(searcher) :
        IF o.result = "Ok"
        THEN /\ searcher' = o.searcher
             /\ view' = redraw_cells(view, o.redraws)
             /\ ui' = [ui EXCEPT !.pc = "idle"]
        ELSE /\ ui' = [ui EXCEPT !.pc = "Panic"]
             /\ UNCHANGED <<searcher, view>>
    /\ UNCHANGED <<lastCall, advances, gen>>

\* The reset callback after interrupt_search: searcher.reset().
ResetSearcher ==
    /\ ui.pc = "reset"
    /\ searcher' = MazeSearcher_reset(searcher)
    /\ ui' = [ui EXCEPT !.pc = "reset_drawing"]
    /\ UNCHANGED <<lastCall, view, advances, gen>>

\* The reset callback's last statement: initialize_maze_drawing.
ResetDrawing ==
    /\ ui.pc = "reset_drawing"
    /\ view' = initialize_maze_drawing(searcher.maze)
    /\ ui' = [ui EXCEPT !.pc = "idle"]
    /\ UNCHANGED <<searcher, lastCall, advances, gen>>

\* update_maze_searcher after interrupt_search: initialize_maze_drawing of
\* the maze it was given.
UpdateDrawing ==
    /\ ui.pc = "initialize_maze_drawing"
    /\ view' = initialize_maze_drawing(ui.maze[1])
    /\ ui' = [ui EXCEPT !.pc = "create_searcher"]
    /\ UNCHANGED <<searcher, lastCall, advances, gen>>

\* update_maze_searcher's last statement: create_searcher for the selected
\* name, which panics or gives the engine that replaces the shared one.
UpdateSearcher ==
    /\ ui.pc = "create_searcher"
    /\ LET created == create_searcher(ui.maze[1], ui.selected) IN
        IF created = None
        THEN ui' = [ui EXCEPT !.pc = "Panic"] /\ UNCHANGED searcher
        ELSE ui' = [ui EXCEPT !.pc = "idle", !.maze = None] /\ searcher' = created
    /\ UNCHANGED <<lastCall, view, advances, gen>>

\* A thread at the top of the loop of auto_search_maze.
AutoTryRecv ==
    /\ ui.pc # "Panic"
    /\ \E t \in ui.threads :
        /\ t.pc = "try_recv"
        /\ ui' = [ui EXCEPT !.threads = (@ \ {t}) \cup {try_recv(t)}]
    /\ UNCHANGED <<searcher, lastCall, view, advances, gen>>

\* A thread in advance_search: the first acquisition of the lock, for
\* terminated(); the loop breaks when advance_search returns false.
AutoTerminated ==
    /\ ui.pc # "Panic"
    /\ \E t \in ui.threads :
        /\ t.pc = "terminated"
        /\ ui' = [ui EXCEPT !.threads = (@ \ {t}) \cup
                    {[t EXCEPT !.pc = IF terminated(searcher) THEN "finished"
                                      ELSE "advance"]}]
    /\ UNCHANGED <<searcher, lastCall, view, advances, gen>>

\* A thread in advance_search: the second acquisition of the lock,
\* advance().unwrap(), the redraws, and the sleep.
AutoAdvance ==
    /\ ui.pc # "Panic"
    /\ \E t \in ui.threads :
        /\ t.pc = "advance"
        /\ \E o \in MazeSearcher_advance(searcher) :
            IF o.result = "Ok"
            THEN /\ searcher' = o.searcher
                 /\ view' = redraw_cells(view, o.redraws)
                 /\ ui' = [ui EXCEPT !.threads = (@ \ {t}) \cup
                            {[t EXCEPT !.pc = "try_recv",
                                       !.advanced_since =
                                           IF t.interrupted THEN @ + 1 ELSE @]}]
            ELSE /\ ui' = [ui EXCEPT !.threads = (@ \ {t}) \cup
                            {[t EXCEPT !.pc = "panicked"]}]
                 /\ UNCHANGED <<searcher, view>>
    /\ UNCHANGED <<lastCall, advances, gen>>

NextVisualizer ==
    \/ GenerateMaze \/ Carve \/ SelectEndpoints
    \/ VisualizerNew
    \/ PlayPauseCallback \/ AdvanceCallback \/ ResetCallback
    \/ ChangeCallback \/ ChangeUpdate \/ SelectAlgorithmCallback
    \/ Join
    \/ AdvanceSearchTerminated \/ AdvanceSearchAdvance
    \/ ResetSearcher \/ ResetDrawing
    \/ UpdateDrawing \/ UpdateSearcher
    \/ AutoTryRecv \/ AutoTerminated \/ AutoAdvance

SpecVisualizer == InitVisualizer /\ [][NextVisualizer]_vars

\* A thread stands between the two acquisitions of advance_search.  The two
\* lock() calls return (no holder of the lock blocks) and advance() returns,
\* so this is when AutoAdvance can be taken.
CanAutoAdvance ==
    /\ ui.pc # "Panic"
    /\ \E t \in ui.threads : t.pc = "advance"

\* The Visualizer under fair scheduling: an auto-search thread that can take
\* its next step takes it, and so does the event-loop thread waiting in the
\* join.  The callbacks answer the user, who owes the program nothing.  The
\* last conjunct is weak fairness of AutoAdvance, written out with
\* CanAutoAdvance for its enabling condition.
FairSpecVisualizer ==
    /\ SpecVisualizer
    /\ WF_vars(AutoTryRecv) /\ WF_vars(AutoTerminated)
    /\ WF_vars(Join)
    /\ ([]<>(~CanAutoAdvance) \/ []<><<AutoAdvance>>_vars)

\* ------------------------------------------------- what the claims speak of

Adjacent(a, b) == abs_diff(a[1], b[1]) + abs_diff(a[2], b[2]) = 1

PassableCells(maze) == {c \in Coords(maze.shape) : maze.cells[c] # "Wall"}

\* The cells that passable steps lead to from the cells of S.
RECURSIVE ReachableFrom(_, _)
ReachableFrom(maze, S) ==
    LET more == S \cup {c \in PassableCells(maze) : \E b \in S : Adjacent(b, c)}
    IN  IF more = S THEN S ELSE ReachableFrom(maze, more)

GoalReachable(maze) == maze.goal \in ReachableFrom(maze, {maze.start})

\* The length of a shortest passable path from the start to `target`, where S
\* holds the cells d steps from the start and seen those within d steps; -1
\* when there is none.
RECURSIVE LayeredDistance(_, _, _, _, _)
LayeredDistance(maze, S, seen, d, target) ==
    IF target \in S THEN d
    ELSE IF S = {} THEN -1
    ELSE LET layer == {c \in PassableCells(maze) \ seen : \E b \in S : Adjacent(b, c)}
         IN  LayeredDistance(maze, layer, seen \cup layer, d + 1, target)

ShortestDistance(maze, target) ==
    LayeredDistance(maze, {maze.start}, {maze.start}, 0, target)

OnPathCells(s) == {c \in Coords(s.maze.shape) : s.cell_statuses[c].on_path}

VisitedCells(s) == {c \in Coords(s.maze.shape) : s.cell_statuses[c].visited}

\* Whether the cells of `rest` can be walked from `cur`, each exactly once and
\* each step between 4-adjacent cells, ending on `last`.
RECURSIVE WalksThrough(_, _, _)
WalksThrough(cur, rest, last) ==
    IF rest = {} THEN cur = last
    ELSE \E n \in rest : Adjacent(cur, n) /\ WalksThrough(n, rest \ {n}, last)

\* The distance to the goal the engine itself recorded on solving.
RecordedDistance(s) ==
    IF s.kind = "DFS" THEN Len(s.path) - 1 ELSE s.dist_grid[s.maze.goal][1]

\* ------------------------------------------------------------------ claims

\* C1: once progress is Solved or NoSolution, every further advance returns
\* ExtraSearchError and leaves the engine (and the renderer) as it was, and
\* progress leaves a terminal value only through reset.
C1_AdvanceAfterTermination ==
    [][/\ (terminated(searcher) /\ lastCall'.op = "advance") =>
            (lastCall'.result = "Err" /\ searcher' = searcher /\ view' = view)
       /\ (terminated(searcher) /\ searcher'.progress # searcher.progress) =>
            (lastCall'.op = "reset" /\ searcher'.progress = "InSearch")]_vars

\* C1 witness: a rejected advance on a solved search.
C1_Witness ==
    /\ lastCall.op = "advance" /\ lastCall.result = "Err"
    /\ searcher.progress = "Solved"

\* The advance calls a search can take at most: every call made InSearch
\* enters a cell for the first time, leaves a cell for good (DFS), or finds
\* the frontier exhausted.
MostAdvances(s) ==
    IF s.kind = "DFS" THEN 2 * Cardinality(PassableCells(s.maze)) + 1
    ELSE Cardinality(PassableCells(s.maze)) + 1

\* C2: from a fresh or reset engine, on any maze, the advance calls made
\* while InSearch are boundedly many and none of them panics: as every call
\* on an InSearch engine is counted, no run of advance calls stays InSearch.
C2_Terminates ==
    /\ lastCall.result # "Panic"
    /\ advances <= MostAdvances(searcher)
    /\ searcher.progress = "InSearch" => advances < MostAdvances(searcher)

\* C2 witness: a search over a cycle of passable cells (its last call
\* discarded frontier entries to cells already finalized) that ended without
\* a solution.
C2_Witness ==
    /\ searcher.progress = "NoSolution" /\ advances >= 5
    /\ lastCall.op = "advance" /\ lastCall.skipped >= 2

\* C3: a search that has ended is Solved exactly when the goal can be reached
\* from the start through passable cells, and NoSolution otherwise.
C3_SolvedIffReachable ==
    terminated(searcher) =>
        (searcher.progress = "Solved" <=> GoalReachable(searcher.maze))

\* C3 witness: a search that explored several cells and found no way to a
\* walled-off goal.
C3_Witness ==
    /\ searcher.progress = "NoSolution"
    /\ ~GoalReachable(searcher.maze)
    /\ Cardinality(VisitedCells(searcher)) >= 3

\* C4: on Solved the on_path cells are a simple path from the start to the
\* goal over passable cells, of the engine's recorded distance plus one cells.
C4_OnPathIsSimplePath ==
    searcher.progress = "Solved" =>
        LET P == OnPathCells(searcher) IN
        /\ searcher.maze.start \in P /\ searcher.maze.goal \in P
        /\ P \subseteq PassableCells(searcher.maze)
        /\ WalksThrough(searcher.maze.start, P \ {searcher.maze.start}, searcher.maze.goal)
        /\ Cardinality(P) = RecordedDistance(searcher) + 1

\* C4 witness: a solved depth-first search that had entered cells off the
\* final path before it found the goal.
C4_Witness ==
    /\ searcher.progress = "Solved" /\ searcher.kind = "DFS"
    /\ Cardinality(OnPathCells(searcher)) >= 3
    /\ Cardinality(VisitedCells(searcher)) > Cardinality(OnPathCells(searcher))

\* C5: on a solvable maze BFS and A-star finalize the goal with the true
\* shortest-path length, and the DFS path is never shorter than that.
C5_ShortestPathLength ==
    searcher.progress = "Solved" =>
        IF searcher.kind = "DFS"
        THEN RecordedDistance(searcher) >= ShortestDistance(searcher.maze, searcher.maze.goal)
        ELSE RecordedDistance(searcher) = ShortestDistance(searcher.maze, searcher.maze.goal)

\* C5 witness: A-star solved a maze whose goal is in another column than the
\* start and whose shortest path is a detour (longer than the Manhattan
\* distance between the two).
C5_Witness ==
    /\ searcher.progress = "Solved" /\ searcher.kind = "A*"
    /\ searcher.maze.start[2] # searcher.maze.goal[2]
    /\ RecordedDistance(searcher) >
         abs_diff(searcher.maze.start[1], searcher.maze.goal[1])
         + abs_diff(searcher.maze.start[2], searcher.maze.goal[2])

\* C6: one advance call turns visited from false to true on at most one cell.
C6_OneFinalizationPerAdvance ==
    [][lastCall'.op = "advance" =>
        Cardinality({c \in Coords(searcher.maze.shape) :
                        /\ ~searcher.cell_statuses[c].visited
                        /\ searcher'.cell_statuses[c].visited}) <= 1]_vars

\* C6 witness: an advance that discarded stale frontier entries and then
\* entered a cell.
C6_Witness ==
    /\ lastCall.op = "advance" /\ lastCall.result = "Ok"
    /\ lastCall.skipped >= 1 /\ lastCall.redraws # <<>>

\* C7: the advance that moves to NoSolution returns no redraw and changes no
\* cell status, and an advance that returns Ok with no redraw is such a call.
C7_EmptyRedrawIffNoSolution ==
    [][lastCall'.op = "advance" =>
        LET exhausted == searcher.progress = "InSearch" /\ searcher'.progress = "NoSolution"
        IN  /\ exhausted <=> (lastCall'.result = "Ok" /\ lastCall'.redraws = <<>>)
            /\ exhausted => searcher'.cell_statuses = searcher.cell_statuses]_vars

\* C7 witness: the call that found the frontier exhausted.
C7_Witness ==
    /\ lastCall.op = "advance" /\ lastCall.before = "InSearch"
    /\ lastCall.result = "Ok" /\ lastCall.redraws = <<>>
    /\ searcher.progress = "NoSolution"

\* C8: reset leaves the engine as create_searcher built it for the same maze
\* and the same algorithm.
C8_ResetIsFresh ==
    lastCall.op = "reset" =>
        searcher = create_searcher(searcher.maze, searcher.kind)

\* C8 witness: a reset of a solved search.
C8_Witness == lastCall.op = "reset" /\ lastCall.before = "Solved"

\* C9: the renderer that applies every redraw list in order holds the
\* engine's cell_statuses, cell by cell.
C9_RendererMirrorsStatuses ==
    \A c \in Coords(searcher.maze.shape) :
        view[coord_to_idx(searcher.maze.shape, c)] = searcher.cell_statuses[c]

\* C9 witness: a solving step on a non-square maze whose list redraws the
\* goal twice (entered, then marked on the path).
C9_Witness ==
    /\ searcher.progress = "Solved" /\ lastCall.op = "advance"
    /\ Len(lastCall.redraws) >= 5
    /\ searcher.maze.shape.rows # searcher.maze.shape.cols

\* The shapes generate_maze accepts.
ValidShape(shape) ==
    shape.rows % 2 = 1 /\ shape.cols % 2 = 1 /\ shape.rows * shape.cols >= 2

\* The number of cells at even (row, col).
LatticeNodes(shape) == effective(shape.rows) * effective(shape.cols)

CellsOfType(maze, cell_type) ==
    {c \in Coords(maze.shape) : maze.cells[c] = cell_type}

\* C10: called with an odd-by-odd shape of at least two cells, generate_maze
\* never panics, its carving loop ends within 2 * (lattice nodes) - 1
\* iterations whatever the random choices, and the grid it returns has exactly
\* one Start cell and exactly one Goal cell, at the distinct recorded start and
\* goal coordinates, joined by a path of passable cells.
C10_GenerateMazeReturnsSolvableMaze ==
    ValidShape(gen.shape) =>
        /\ gen.pc # "Panic"
        /\ gen.iterations <= 2 * LatticeNodes(gen.shape) - 1
        /\ gen.pc = "carve" => gen.iterations < 2 * LatticeNodes(gen.shape) - 1
        /\ gen.pc = "returned" =>
            LET maze == gen.maze[1] IN
                /\ CellsOfType(maze, "Start") = {maze.start}
                /\ CellsOfType(maze, "Goal") = {maze.goal}
                /\ maze.start # maze.goal
                /\ GoalReachable(maze)

\* A 3x5 maze with a branching corridor (three dead ends, so the carver went
\* back to an earlier node of its pool) has been returned.
C10_Witness ==
    /\ gen.pc = "returned"
    /\ gen.shape = MazeShape_new(3, 5)
    /\ Len(gen.coord_pairs) = 3
    /\ gen.iterations = 2 * LatticeNodes(gen.shape) - 1

\* The unordered pairs of 4-adjacent passable cells.
PassablePairs(maze) ==
    {p \in PassableCells(maze) \X PassableCells(maze) :
        /\ Adjacent(p[1], p[2])
        /\ coord_to_idx(maze.shape, p[1]) < coord_to_idx(maze.shape, p[2])}

\* C11: the passable cells of a generated maze form a tree under
\* 4-adjacency (all reachable from the start, one adjacent pair fewer than
\* cells), and every cell at even (row, col) is passable.
C11_GeneratedMazeIsTree ==
    gen.pc = "returned" =>
        LET maze == gen.maze[1] IN
            /\ ReachableFrom(maze, {maze.start}) = PassableCells(maze)
            /\ Cardinality(PassablePairs(maze)) = Cardinality(PassableCells(maze)) - 1
            /\ \A c \in Coords(maze.shape) :
                    (c[1] % 2 = 0 /\ c[2] % 2 = 0) => is_passable(maze.cells[c])

\* C11 witness: a 3x5 maze was returned, whose lattice of 2x3 nodes has cycles
\* the carver could have closed, and the carver restarted from a pool node.
C11_Witness ==
    /\ gen.pc = "returned"
    /\ gen.shape = MazeShape_new(3, 5)
    /\ Len(gen.coord_pairs) = 3
    /\ Cardinality(PassableCells(gen.maze[1])) = 11

\* C12: generate_maze panics, and returns no maze, whenever rows is even, cols
\* is even or rows * cols < 2 (it goes from its entry straight to the panic),
\* and it never panics for an odd-by-odd shape of at least two cells.
C12_GenerateMazePanicsOnInvalidShape ==
    /\ (gen.shape.rows % 2 = 0 \/ gen.shape.cols % 2 = 0
            \/ gen.shape.rows * gen.shape.cols < 2) =>
        (gen.pc \in {"generate_maze", "Panic"} /\ gen.maze = None)
    /\ (gen.shape.rows % 2 = 1 /\ gen.shape.cols % 2 = 1
            /\ gen.shape.rows * gen.shape.cols >= 2) =>
        gen.pc # "Panic"

\* C12 witness: the call with the 1x1 shape has panicked.
C12_Witness ==
    gen.pc = "Panic" /\ gen.shape = MazeShape_new(1, 1) /\ gen.maze = None

\* C13: create_searcher gives a DFS engine for exactly "DFS", a BFS engine
\* for exactly "BFS" and an A-star engine for exactly "A*", each InSearch on
\* the maze it was given; for any other string it panics and the shared
\* engine stays the one it was.
C13_CreateSearcherByExactName ==
    [][(ui.pc = "create_searcher" /\ ui'.pc # ui.pc) =>
        /\ \A name \in {"DFS", "BFS", "A*"} :
              ui.selected = name =>
                /\ ui'.pc = "idle"
                /\ searcher'.kind = name
                /\ searcher'.progress = "InSearch"
                /\ searcher'.maze = ui.maze[1]
                /\ VisitedCells(searcher') = {}
        /\ ui.selected \notin {"DFS", "BFS", "A*"} =>
                (ui'.pc = "Panic" /\ searcher' = searcher)]_vars

\* C13 witness: create_searcher has panicked on a name that differs from a
\* recognized one in case only.
C13_Witness ==
    /\ ui.pc = "Panic" /\ ui.selected = "dfs" /\ ui.maze # None
    /\ searcher.kind = "DFS"

\* The auto-search threads whose function has not returned.
AliveThreads == {t \in ui.threads : ~is_finished(t)}

\* C14: whenever the event-loop thread resets, advances or replaces the
\* shared engine, the task slot is empty and no auto-search thread is alive
\* (the callback has sent Interrupt and joined it), and a step is the work of
\* the event-loop thread or of one auto-search thread, never of both.
C14_ForegroundWaitsForAutoSearch ==
    [][/\ (ui'.pc # ui.pc /\ (searcher' # searcher
                               \/ ui.pc \in {"advance_search", "advance", "reset",
                                              "create_searcher"})) =>
            (AliveThreads = {} /\ ui.task = None)
       /\ ~(ui'.pc # ui.pc /\ \E t \in ui.threads : t \notin ui'.threads /\ ~is_finished(t)
                                 /\ searcher' # searcher)]_vars

\* C14 witness: the reset callback has sent Interrupt to a thread that is
\* about to call advance, and waits in the join.
C14_Witness ==
    /\ ui.pc = "join" /\ ui.after = "reset"
    /\ \E t \in ui.threads : t.pc = "advance" /\ t.signals = 1

\* C15: a thread that was sent Interrupt makes at most one further advance
\* call, and its next check of the channel ends it.
C15_OneAdvanceAfterInterrupt ==
    [][\A t2 \in ui'.threads :
        /\ t2.advanced_since <= 1
        /\ \A t \in ui.threads :
              (t.id = t2.id /\ t.interrupted /\ t.pc = "try_recv" /\ t2 # t) =>
                  t2.pc = "finished"]_vars

\* C15 witness: a thread has ended on Interrupt after the one advance it
\* made since the Interrupt was sent.
C15_Witness ==
    \E t \in ui.threads :
        t.pc = "finished" /\ t.interrupted /\ t.advanced_since = 1 /\ t.signals = 0

\* Whether the renderer shows the maze unexplored.
ShowsUnexplored(maze) ==
    \A c \in Coords(maze.shape) :
        view[coord_to_idx(maze.shape, c)] =
            [cell_type |-> maze.cells[c], visited |-> FALSE, stay |-> FALSE,
             footprint |-> FALSE, on_path |-> FALSE]

C17_WeightIsDistancePlusManhattan ==
    searcher.kind = "A*" =>
        \A e \in searcher.edge_heap :
            e.weight = e.edge.distance
                       + abs_diff(e.edge.to[1], searcher.maze.goal[1])
                       + abs_diff(e.edge.to[2], searcher.maze.goal[2])

\* The hand-built corridor maze with rows 'S . #', '# . #', '# . G'.
CorridorMaze ==
    MazeGrid([rows |-> 3, cols |-> 3], <<0, 0>>, <<2, 2>>,
             {<<0, 2>>, <<1, 0>>, <<1, 2>>, <<2, 0>>})

\* C18 as stated: on the corridor maze BFS is Solved after exactly 3 advance
\* calls and reports path length 2, and DFS is never left without a solution.
C18_CorridorSolvedInThree ==
    searcher.maze = CorridorMaze =>
        /\ searcher.kind = "BFS" =>
              /\ advances <= 3
              /\ advances < 3 => searcher.progress = "InSearch"
              /\ advances = 3 => /\ searcher.progress = "Solved"
                                 /\ RecordedDistance(searcher) = 2
        /\ searcher.kind = "DFS" => searcher.progress # "NoSolution"

\* C18 amended: on the corridor maze BFS is Solved after exactly 5 advance
\* calls, which finalize (0,0), (0,1), (1,1), (2,1) and (2,2) in this order,
\* and reports path length 4; DFS also reaches Solved.
C18_CorridorSolvedInFive ==
    searcher.maze = CorridorMaze =>
        /\ searcher.kind = "BFS" =>
              /\ advances <= 5
              /\ advances < 5 => searcher.progress = "InSearch"
              /\ advances = 5 => /\ searcher.progress = "Solved"
                                 /\ RecordedDistance(searcher) = 4
              /\ \A c \in Coords(searcher.maze.shape) :
                    searcher.dist_grid[c] # None <=>
                        /\ searcher.maze.cells[c] # "Wall"
                        /\ c[1] + c[2] < advances
        /\ searcher.kind = "DFS" =>
              /\ searcher.progress # "NoSolution"
              /\ advances <= 5
              /\ advances = 5 => searcher.progress = "Solved"

C18_Witness ==
    /\ searcher.maze = CorridorMaze
    /\ searcher.kind = "BFS"
    /\ searcher.progress = "Solved"
    /\ advances = 5
    /\ RecordedDistance(searcher) = 4

\* The candidate pairs select_endpoints compared, the distance it compared
\* them by, and the position of the pair it returned.
CandidateDistance(i) ==
    calculate_path_length(gen.shape, gen.cells,
                          gen.coord_pairs[i][1], gen.coord_pairs[i][2])[1]

ChosenCandidates ==
    {i \in 1..Len(gen.coord_pairs) :
        {gen.coord_pairs[i][1], gen.coord_pairs[i][2]}
            = {gen.maze[1].start, gen.maze[1].goal}}

\* C19 as stated: the returned start/goal pair is a candidate of greatest
\* distance, and the first such candidate in the shuffled order.
C19_FirstMaximalCandidate ==
    (gen # None /\ gen.pc = "returned") =>
        /\ Len(gen.coord_pairs) <= MAX_CANDIDATE_ENDPOINTS
        /\ \E i \in ChosenCandidates :
              /\ \A j \in 1..Len(gen.coord_pairs) :
                    CandidateDistance(j) <= CandidateDistance(i)
              /\ \A j \in 1..(i - 1) : CandidateDistance(j) < CandidateDistance(i)

\* C19 amended: the returned start/goal pair is a candidate of greatest
\* distance, and the LAST such candidate in the shuffled order.
C19_LastMaximalCandidate ==
    (gen # None /\ gen.pc = "returned") =>
        /\ Len(gen.coord_pairs) <= MAX_CANDIDATE_ENDPOINTS
        /\ \E i \in ChosenCandidates :
              /\ \A j \in 1..Len(gen.coord_pairs) :
                    CandidateDistance(j) <= CandidateDistance(i)
              /\ \A j \in (i + 1)..Len(gen.coord_pairs) :
                    CandidateDistance(j) < CandidateDistance(i)

\* Two candidates of greatest distance, the later of which was returned.
C19_Witness ==
    /\ gen # None
    /\ gen.pc = "returned"
    /\ \E i \in ChosenCandidates :
          /\ \A j \in 1..Len(gen.coord_pairs) :
                CandidateDistance(j) <= CandidateDistance(i)
          /\ \E j \in 1..(i - 1) : CandidateDistance(j) = CandidateDistance(i)

\* The lattice node coord still has an unvisited lattice neighbour two cells
\* away.
HasUnvisitedNeighbour(g, coord) ==
    \E i \in 1..4 : can_dig(g.shape, g.cells, coord, ADJACENT_DISPLACEMENT[i])

\* The node the next iteration of the carving loop works from.
CurrentNode(g) == g.coordinates_pool[g.idx + 1]

\* C20 as stated: the carver backtracks in stack order, so that no node added
\* to the growth path after the node it works from still has an unvisited
\* neighbour.
C20_StackOrderBacktracking ==
    (gen # None /\ gen.pc = "carve") =>
        \A k \in (gen.idx + 2)..Len(gen.coordinates_pool) :
            ~HasUnvisitedNeighbour(gen, gen.coordinates_pool[k])

\* C20 amended: when the current node has no unvisited lattice neighbour two
\* cells away, that node alone is removed from the growth path, and carving
\* stops if the path is now empty and otherwise resumes from one of the
\* remaining nodes, whichever its position in the path.
C20_Backtracking ==
    [][(gen.pc = "carve" /\ ~HasUnvisitedNeighbour(gen, CurrentNode(gen))) =>
          LET pool == gen.coordinates_pool IN
          /\ Len(gen'.coordinates_pool) = Len(pool) - 1
          /\ \A k \in 1..(Len(pool) - 1) :
                gen'.coordinates_pool[k] = IF k <= gen.idx THEN pool[k] ELSE pool[k + 1]
          /\ Len(pool) = 1 => gen'.pc = "select_endpoints"
          /\ Len(pool) > 1 => /\ gen'.pc = "carve"
                              /\ gen'.idx \in 0..(Len(pool) - 2)
          /\ \A c \in DOMAIN gen.cells :
                gen'.cells[c] = IF c = CurrentNode(gen) THEN "Passage" ELSE gen.cells[c]
    ]_vars

\* The carver resumed from a node older than one that still has an unvisited
\* neighbour.
C20_Witness ==
    /\ gen # None
    /\ gen.pc = "carve"
    /\ gen.idx + 1 < Len(gen.coordinates_pool)
    /\ \E k \in (gen.idx + 2)..Len(gen.coordinates_pool) :
          HasUnvisitedNeighbour(gen, gen.coordinates_pool[k])

\* The cells with a recorded distance.
Finalized(s) == {c \in Coords(s.maze.shape) : s.dist_grid[c] # None}

\* C21: in BFS every recorded distance is the length of a shortest passable
\* path from the start, an advance call never changes a recorded distance, and
\* the cell it finalizes is no nearer than any cell finalized before it.
C21_BFSDistancesAreShortest ==
    [][searcher'.kind = "BFS" =>
          /\ \A c \in Finalized(searcher') :
                searcher'.dist_grid[c][1] = ShortestDistance(searcher'.maze, c)
          /\ lastCall'.op = "advance" =>
                /\ \A c \in Finalized(searcher) :
                      searcher'.dist_grid[c] = searcher.dist_grid[c]
                /\ \A c \in Finalized(searcher') \ Finalized(searcher) :
                      \A b \in Finalized(searcher) :
                          searcher.dist_grid[b][1] <= searcher'.dist_grid[c][1]
    ]_vars

\* C21 witness: a BFS call that discarded a queued edge to a finalized cell
\* and went on to finalize a cell two or more steps from the start.
C21_Witness ==
    /\ searcher.kind = "BFS"
    /\ lastCall.op = "advance" /\ lastCall.result = "Ok"
    /\ lastCall.skipped >= 1
    /\ \E c \in Finalized(searcher) : searcher.dist_grid[c][1] >= 2
    /\ Cardinality(Finalized(searcher)) >= 4

\* The edges to neighbours held by the frontier: the queue (BFS), the heap
\* (A-star), the forward edges of the edge stack (DFS).
FrontierEdges(s) ==
    CASE s.kind = "BFS" -> {s.edge_queue[i] : i \in 1..Len(s.edge_queue)}
      [] s.kind = "A*" -> {e.edge : e \in s.edge_heap}
      [] s.kind = "DFS" -> {s.edge_stack[i] : i \in {j \in 1..Len(s.edge_stack) :
                                                      s.edge_stack[j].forward}}

\* The cells finalized (BFS, A-star) or visited (DFS).
Settled(s) == IF s.kind = "DFS" THEN VisitedCells(s) ELSE Finalized(s)

\* C22 as stated: an edge added to the frontier by an advance call leads to a
\* passable cell that is not finalized (BFS, A-star) or visited (DFS) when the
\* call has pushed it.
C22_PushesOnlyUnsettledTargets ==
    [][lastCall'.op = "advance" =>
          \A e \in FrontierEdges(searcher') \ FrontierEdges(searcher) :
              /\ is_passable(searcher.maze.cells[e.to])
              /\ e.to \notin Settled(searcher')
    ]_vars

\* C22 amended: an advance call that expands a cell adds an edge from it to
\* each of its passable neighbours, finalized or visited or not, and to no
\* other cell; the edges a call takes off the frontier without expanding them
\* all lead to cells already finalized or visited.
C22_PushesEveryPassableNeighbour ==
    [][lastCall'.op = "advance" =>
          LET added == FrontierEdges(searcher') \ FrontierEdges(searcher)
              taken == FrontierEdges(searcher) \ FrontierEdges(searcher')
              entered == Settled(searcher') \ Settled(searcher)
          IN  /\ Cardinality(entered) <= 1
              /\ \A e \in taken : e.to \in Settled(searcher) \cup entered
              /\ entered = {} => added = {}
              /\ \A x \in entered :
                    IF searcher'.progress = "InSearch"
                    THEN /\ \A e \in added : e.from = Some(x)
                         /\ {e.to : e \in added}
                              = {c \in PassableCells(searcher.maze) : Adjacent(x, c)}
                    ELSE searcher.kind # "DFS" => added = {}
    ]_vars

\* C22 witness: the frontier holds an edge out of the cell the last call
\* expanded to a cell that was settled before it.
C22_Witness ==
    /\ lastCall.op = "advance" /\ lastCall.result = "Ok"
    /\ searcher.progress = "InSearch"
    /\ \E e \in FrontierEdges(searcher) :
          /\ e.from # None
          /\ searcher.cell_statuses[e.from[1]].stay
          /\ e.to \in Settled(searcher)

\* C23: in DFS, after every advance call, the path stack is a simple path of
\* passable cells that starts at the start cell and steps between 4-adjacent
\* cells; and a call that takes a forward edge takes one whose from cell was
\* on top of the path stack before the call (none, for the edge into the
\* start).
C23_DFSPathStack ==
    [][(searcher'.kind = "DFS" /\ lastCall'.op = "advance") =>
          LET path == searcher'.path
              before == searcher.path
              popped == DFS_pop_effective_edge(searcher.edge_stack, searcher.cell_statuses)
          IN  /\ \A i \in 1..Len(path) : is_passable(searcher.maze.cells[path[i]])
              /\ \A i, j \in 1..Len(path) : i # j => path[i] # path[j]
              /\ \A i \in 1..(Len(path) - 1) : Adjacent(path[i], path[i + 1])
              /\ path # <<>> => path[1] = searcher.maze.start
              /\ Len(path) = Len(before) + 1 =>
                    /\ popped.edge # None /\ popped.edge[1].forward
                    /\ path = Append(before, popped.edge[1].to)
                    /\ popped.edge[1].from =
                          IF before = <<>> THEN None ELSE Some(before[Len(before)])
    ]_vars

\* C23 witness: on a maze with a cycle, a DFS call that discarded a stale
\* edge and then took a forward edge out of a cell it had backtracked to.
C23_Witness ==
    /\ searcher.kind = "DFS"
    /\ lastCall.op = "advance" /\ lastCall.result = "Ok"
    /\ lastCall.skipped >= 1
    /\ searcher.progress = "InSearch"
    /\ Len(searcher.path) >= 2
    /\ lastCall.redraws[Len(lastCall.redraws)].status.stay
    /\ lastCall.redraws[Len(lastCall.redraws)].cell_idx
          = coord_to_idx(searcher.maze.shape, searcher.path[Len(searcher.path)])
    /\ Cardinality(VisitedCells(searcher)) > Len(searcher.path)

\* C24: in DFS the cells with footprint set are exactly the cells on the path
\* stack; in BFS and A-star no cell has footprint set.
C24_FootprintIsPathStack ==
    \A c \in Coords(searcher.maze.shape) :
        searcher.cell_statuses[c].footprint <=>
            /\ searcher.kind = "DFS"
            /\ \E i \in 1..Len(searcher.path) : searcher.path[i] = c

\* C24 witness: a DFS that has backtracked out of a cell (visited, footprint
\* cleared) and still holds two or more cells on its path.
C24_Witness ==
    /\ searcher.kind = "DFS"
    /\ searcher.progress = "InSearch"
    /\ Len(searcher.path) >= 2
    /\ \E c \in VisitedCells(searcher) : ~searcher.cell_statuses[c].footprint

\* The cells whose stay flag is set.
StayCells(s) == {c \in Coords(s.maze.shape) : s.cell_statuses[c].stay}

\* The redraws of the call that carry a set stay flag: the cells it entered.
Entering(call) == {i \in 1..Len(call.redraws) : call.redraws[i].status.stay}

\* The cell the call entered last.
LastEntered(call, shape) ==
    idx_to_coord(shape,
        call.redraws[CHOOSE i \in Entering(call) : \A j \in Entering(call) : j <= i].cell_idx)

\* C25: in each engine at most one cell has stay set, and while the search is
\* InSearch after an advance call that entered a cell, that cell is the one
\* with stay set.
C25_SingleStayCell ==
    /\ Cardinality(StayCells(searcher)) <= 1
    /\ (searcher.progress = "InSearch" /\ lastCall.op = "advance"
            /\ lastCall.result = "Ok" /\ Entering(lastCall) # {}) =>
          StayCells(searcher) = {LastEntered(lastCall, searcher.maze.shape)}

\* C26: in BFS and A-star the backward walk from the goal cannot fail: no
\* advance call panics, the start alone is recorded at distance 0, and every
\* other cell with a recorded distance d has d >= 1 and an in-range neighbour
\* recorded at d - 1; the walk from a goal recorded at d makes d such steps.
C26_PathReconstructionNeverFails ==
    searcher.kind \in {"BFS", "A*"} =>
        /\ lastCall.result # "Panic"
        /\ \A c \in Finalized(searcher) :
              IF c = searcher.maze.start THEN searcher.dist_grid[c][1] = 0
              ELSE /\ searcher.dist_grid[c][1] >= 1
                   /\ \E n \in Finalized(searcher) :
                         /\ Adjacent(n, c)
                         /\ searcher.dist_grid[n][1] = searcher.dist_grid[c][1] - 1
        /\ searcher.progress = "Solved" =>
              Cardinality(OnPathCells(searcher)) = RecordedDistance(searcher) + 1

\* C26 witness: an A-star search solved by a walk of three or more steps back
\* from the goal, on a maze where it also finalized cells off the path.
C26_Witness ==
    /\ searcher.kind = "A*"
    /\ searcher.progress = "Solved"
    /\ RecordedDistance(searcher) >= 3
    /\ Finalized(searcher) # OnPathCells(searcher)

\* C27: advance_search tests terminated() and calls advance() under two
\* acquisitions of the lock, yet whoever is between the two, the callback on
\* the event loop or the auto-step thread, finds the engine still InSearch:
\* advance() never returns ExtraSearchError, no thread panics on its unwrap
\* and no join meets a panicked thread.
C27_AdvanceNeverExtra ==
    /\ ui.pc = "advance" => ~terminated(searcher)
    /\ \A t \in ui.threads :
          /\ t.pc = "advance" => ~terminated(searcher)
          /\ t.pc # "panicked"

\* C27 witness: the advance callback has interrupted the auto-step thread and
\* waits to join it while the thread is between its two acquisitions.
C27_Witness ==
    /\ ui.pc = "join" /\ ui.after = "advance_search"
    /\ \E t \in ui.threads : t.pc = "advance" /\ t.interrupted

\* The identities of the auto-step threads.
ThreadIds(u) == {t.id : t \in u.threads}

\* C28: at most one auto-step thread is alive (indeed at most one exists,
\* ended or not); a thread is spawned only into an empty task slot, with no
\* earlier thread left; the slot is emptied only by interrupt_search, which
\* then joins the thread of the slot; and that join returns only when the
\* thread has ended.
C28_AtMostOneAutoStepThread ==
    [][/\ Cardinality(ui'.threads) <= 1
       /\ Cardinality({t \in ui'.threads : ~is_finished(t)}) <= 1
       /\ ThreadIds(ui') \ ThreadIds(ui) # {} =>
             /\ ui.task = None /\ ui.threads = {}
             /\ ui.pc = "idle"
             /\ \E t \in ui'.threads : ui'.task = Some(t.id)
       /\ (ui.task # None /\ ui'.task = None) =>
             /\ ui'.pc = "join" /\ ui'.joining = ui.task
             /\ ui.task[1] \in ThreadIds(ui')
       /\ (ui.pc = "join" /\ ui'.pc # "join") =>
             /\ AliveThreads = {}
             /\ ui'.threads = {}
    ]_vars

\* C28 witness: play/pause found a task in the slot, took it out and sent
\* Interrupt, and waits for the thread, which has not read the signal yet.
C28_Witness ==
    /\ ui.pc = "join" /\ ui.after = "idle" /\ ui.task = None
    /\ \E t \in ui.threads :
          t.pc = "try_recv" /\ t.signals = 1 /\ ui.joining = Some(t.id)

\* A step of the play/pause callback: the only one that changes the task
\* slot and leaves the event loop idle, or joining on its way back to idle.
PlayPauseStep ==
    /\ ui.pc = "idle"
    /\ ui'.task # ui.task
    /\ ui'.pc = "idle" \/ (ui'.pc = "join" /\ ui'.after = "idle")

\* C29: a play/pause callback run while no auto-step thread is running (none
\* started yet, the last one joined, or the last one ended by itself) spawns
\* a new thread into the task slot.
C29_PlayStartsTaskWhenNoneRuns ==
    [][(PlayPauseStep /\ AliveThreads = {}) =>
          \E t \in ui'.threads :
              /\ ~is_finished(t)
              /\ ui'.task = Some(t.id)
    ]_vars

\* C30: under fair scheduling every auto-step thread ends, and every join of
\* interrupt_search returns.
C30_AutoStepThreadExits ==
    /\ (AliveThreads # {}) ~> (AliveThreads = {})
    /\ (ui.pc = "join") ~> (ui.pc # "join")

\* C30 witness: a thread left its loop on the Interrupt it received, before
\* the search ended, and the join of interrupt_search waits for it.
C30_Witness ==
    /\ ui.pc = "join"
    /\ ~terminated(searcher)
    /\ LET t == the_thread(ui, ui.joining[1]) IN
          t.pc = "finished" /\ t.interrupted /\ t.signals = 0

====
